---- MODULE Spec2Model ----
(***************************************************************************)
(* A model of samples/balloon/balloon2.py: the annotation loader           *)
(* (BalloonDataset.load_balloon), the polygon rasterizer                   *)
(* (BalloonDataset.load_mask), the compositor (color_splash) and the       *)
(* image / video driver (detect_and_color_splash).                         *)
(*                                                                         *)
(* Numbers.  A pixel is a triple of 8-bit channels.  The scaled grayscale  *)
(* of line 220 is a float in [0,255]; it is kept here as the exact integer *)
(* GrayScale * value (the luminance weights 0.2125, 0.7154, 0.0721 have    *)
(* four decimals), so that the cast to 8 bits is a floor division and the  *)
(* comparison with the Otsu threshold is exact rational arithmetic.        *)
(***************************************************************************)
EXTENDS Integers, Sequences, FiniteSets, TLC

VARIABLES
    image,      \* color_splash / the driver: the image being processed
    mask,       \* the mask stack handed to color_splash (r['masks'])
    splash,     \* the composite
    pc,         \* the driver: the statement about to run
    success,    \* video: the flag of the last vcapture.read()
    count,      \* video: frames written; images: inputs finished
    vwriter,    \* video: the output writer
    reads,      \* video: number of vcapture.read() calls made
    readlog,    \* video: the frames read, in order
    detlog,     \* video: the mask stacks detected, in order
    paths,      \* images: images_path.split(",")
    saves,      \* images: the file names given to imsave, in order
    fs,         \* images: the files written, name -> content
    image_info, \* the dataset: the records added by add_image
    files,      \* load_balloon: the annotation files glob returned
    fi,         \* load_balloon: the index of the next file of the loop
    status,     \* load_balloon: "new", "loading", "returned" or "raised"
    lm          \* the outcome of the last load_mask call

svars == <<image, mask, splash>>
dvars == <<pc, success, count, vwriter, reads, readlog, detlog, paths, saves, fs>>
lvars == <<image_info, files, fi, status, lm>>
vars == <<svars, dvars, lvars>>

----------------------------------------------------------------------------
(* Bounds and input domains                                                *)

MaxLayers == 2

\* <<height, width>> of the images and mask stacks that are tried
Shapes == {<<1, 1>>, <<2, 1>>, <<3, 1>>, <<1, 2>>}

\* RGB values of the pixels that are tried; none is its own grayscale
Palette == {<<200, 100, 50>>, <<10, 20, 30>>, <<0, 90, 255>>}

Pos(h, w) == (1..h) \X (1..w)

Images ==
    UNION {[h : {s[1]}, w : {s[2]}, px : [Pos(s[1], s[2]) -> Palette]] : s \in Shapes}

\* a mask stack [height, width, instance count]: m[p][i] is layer i at p
MasksOf(shapes, maxn) ==
    UNION {UNION {[h : {s[1]}, w : {s[2]}, n : {k},
                   m : [Pos(s[1], s[2]) -> [1..k -> BOOLEAN]]] : k \in 0..maxn}
           : s \in shapes}

RECURSIVE Sum(_, _)
Sum(f, S) ==
    IF S = {} THEN 0
    ELSE LET x == CHOOSE x \in S : TRUE IN f[x] + Sum(f, S \ {x})

Max(a, b) == IF a >= b THEN a ELSE b

----------------------------------------------------------------------------
(* color_splash, lines 211-230                                             *)

GrayScale == 10000
nbins == 256

\* skimage.color.gray2rgb(skimage.color.rgb2gray(image)) * 255: one
\* luminance per pixel (the three channels are equal), times GrayScale
rgb2gray(img) ==
    [p \in DOMAIN img.px |->
        2125 * img.px[p][1] + 7154 * img.px[p][2] + 721 * img.px[p][3]]

\* threshold_otsu(gray): the centre of the first histogram bin (nbins bins
\* over [min, max]) that maximises the between-class variance
\* weight1 * weight2 * (mean1 - mean2)^2; an image of one value is its own
\* threshold.  The result is the rational num / den.  The variances are
\* compared exactly; np.argmax takes the first of equal maxima.
threshold_otsu(gray) ==
    LET vals == {gray[p] : p \in DOMAIN gray}
        lo   == CHOOSE v \in vals : \A u \in vals : v <= u
        hi   == CHOOSE v \in vals : \A u \in vals : v >= u
        D    == hi - lo
        bin  == [p \in DOMAIN gray |->
                    IF gray[p] = hi THEN nbins - 1
                    ELSE ((gray[p] - lo) * nbins) \div D]
        ctr  == [p \in DOMAIN gray |-> 2 * bin[p] + 1]
        C1(i) == {p \in DOMAIN gray : bin[p] <= i}
        C2(i) == {p \in DOMAIN gray : bin[p] > i}
        W(i) == Cardinality(C1(i)) * Cardinality(C2(i))
        A(i) == Sum(ctr, C1(i)) * Cardinality(C2(i))
                  - Sum(ctr, C2(i)) * Cardinality(C1(i))
        \* variance12[i] > variance12[j]
        Gt(i, j) == A(i) * A(i) * W(j) > A(j) * A(j) * W(i)
        I    == {bin[p] : p \in DOMAIN gray} \ {nbins - 1}
        idx  == CHOOSE i \in I :
                    \A j \in I : ~Gt(j, i) /\ (j < i => Gt(i, j))
    IN  IF lo = hi THEN [num |-> lo, den |-> 1]
        ELSE [num |-> lo * 2 * nbins + (2 * idx + 1) * D, den |-> 2 * nbins]

\* gray > thresh
binary_thresh(gray, thresh) ==
    [p \in DOMAIN gray |-> gray[p] * thresh.den > thresh.num]

\* a variant of collapse that keeps a pixel only where every layer is set
collapse_all(msk) ==
    [h |-> msk.h, w |-> msk.w,
     m |-> [p \in Pos(msk.h, msk.w) |-> \A i \in 1..msk.n : msk.m[p][i]]]

\* np.sum(mask, -1, keepdims=True) >= 1
collapse(msk) ==
    [h |-> msk.h, w |-> msk.w,
     m |-> [p \in Pos(msk.h, msk.w) |-> \E i \in 1..msk.n : msk.m[p][i]]]

\* a variant of compatible that accepts equal sizes only
compatible_strict(a, b) == a = b

\* numpy broadcasting of one axis of two arrays
compatible(a, b) == a = b \/ a = 1 \/ b = 1

bidx(p, h, w) == <<IF h = 1 THEN 1 ELSE p[1], IF w = 1 THEN 1 ELSE p[2]>>

ValueError == [kind |-> "ValueError"]

\* np.where(mask, image, binary_thresh_img).astype(np.uint8): the three
\* arrays are broadcast against each other; a boolean becomes 0 or 1
where(cond, img, bin) ==
    IF ~(compatible(cond.h, img.h) /\ compatible(cond.w, img.w))
    THEN ValueError
    ELSE LET H == Max(cond.h, img.h)
             W == Max(cond.w, img.w)
         IN  [kind |-> "ok", h |-> H, w |-> W,
              px |-> [p \in Pos(H, W) |->
                        IF cond.m[bidx(p, cond.h, cond.w)]
                        THEN img.px[bidx(p, img.h, img.w)]
                        ELSE LET b == IF bin[bidx(p, img.h, img.w)] THEN 1 ELSE 0
                             IN  <<b, b, b>>]]

\* gray.astype(np.uint8)
astype_uint8(img, gray) ==
    [kind |-> "ok", h |-> img.h, w |-> img.w,
     px |-> [p \in DOMAIN gray |->
                LET g == gray[p] \div GrayScale IN <<g, g, g>>]]

\* a variant of color_splash without the branch on the layer count
color_splash_nobranch(img, msk) ==
    LET gray == rgb2gray(img)
    IN  where(collapse(msk), img, binary_thresh(gray, threshold_otsu(gray)))

color_splash(img, msk) ==
    LET gray   == rgb2gray(img)
        thresh == threshold_otsu(gray)
        binary_thresh_img == binary_thresh(gray, thresh)
    IN  IF msk.n > 0
        THEN where(collapse(msk), img, binary_thresh_img)
        ELSE astype_uint8(img, gray)

----------------------------------------------------------------------------
(* Specification of the compositor: any image, any mask stack, one call    *)

Pending == [kind |-> "pending"]
None == [kind |-> "none"]
NoWriter == [open |-> FALSE, out |-> <<>>, releases |-> 0, late |-> FALSE]

LoaderIdle ==
    /\ image_info = <<>> /\ files = <<>> /\ fi = 0 /\ status = "new"
    /\ lm = None

DriverIdle ==
    /\ pc = "idle" /\ success = FALSE /\ count = 0 /\ vwriter = NoWriter
    /\ reads = 0 /\ readlog = <<>> /\ detlog = <<>>
    /\ paths = <<>> /\ saves = <<>> /\ fs = <<>>

InitSplash ==
    /\ image \in Images
    /\ mask \in MasksOf(Shapes, MaxLayers)
    /\ splash = Pending
    /\ DriverIdle
    /\ LoaderIdle

CallColorSplash ==
    /\ splash = Pending
    /\ splash' = color_splash(image, mask)
    /\ UNCHANGED <<lvars, image, mask, dvars>>

NextSplash == CallColorSplash

SpecSplash == InitSplash /\ [][NextSplash]_vars

----------------------------------------------------------------------------
(* detect_and_color_splash, lines 233-283                                  *)

MaxFrames == 3
MaxPaths == 3

\* a stack of Len(layers) layers, layer i set exactly on layers[i]
MkStack(h, w, layers) ==
    [h |-> h, w |-> w, n |-> Len(layers),
     m |-> [p \in Pos(h, w) |-> [i \in 1..Len(layers) |-> p \in layers[i]]]]

\* model.detect([image])[0]['masks'] is outside this file: any of a stack
\* without layers, one layer, two overlapping layers, or a stack of another
\* height than the image
DetectMasks(img) ==
    {MkStack(img.h, img.w, <<>>),
     MkStack(img.h, img.w, <<{<<1, 1>>}>>),
     MkStack(img.h, img.w, <<{<<1, 1>>}, Pos(img.h, img.w)>>),
     MkStack(img.h + 1, img.w, <<Pos(img.h + 1, img.w)>>)}

FrameOf(a, b) == [h |-> 2, w |-> 1, px |-> (<<1, 1>> :> a) @@ (<<2, 1>> :> b)]

\* the frames a video source delivers
VideoFrames ==
    {FrameOf(<<200, 100, 50>>, <<10, 20, 30>>),
     FrameOf(<<10, 20, 30>>, <<0, 90, 255>>)}

\* image[..., ::-1]: the channel order reversed
rev(img) ==
    [img EXCEPT !.px = [p \in DOMAIN img.px |->
                          <<img.px[p][3], img.px[p][2], img.px[p][1]>>]]

\* the state at line 266, the writer created (lines 253-265)
InitVideo ==
    /\ image = None /\ mask = None /\ splash = None
    /\ pc = "read" /\ success = TRUE /\ count = 0
    /\ vwriter = [open |-> TRUE, out |-> <<>>, releases |-> 0, late |-> FALSE]
    /\ reads = 0 /\ readlog = <<>> /\ detlog = <<>>
    /\ paths = <<>> /\ saves = <<>> /\ fs = <<>>
    /\ LoaderIdle

\* lines 269-272: a read that succeeds
VReadOk ==
    /\ pc = "read" /\ success
    /\ Len(readlog) < MaxFrames
    /\ \E f \in VideoFrames :
          /\ image' = rev(f)
          /\ readlog' = Append(readlog, f)
    /\ success' = TRUE
    /\ reads' = reads + 1
    /\ pc' = "detect"
    /\ UNCHANGED <<lvars, mask, splash, count, vwriter, detlog, paths, saves, fs>>

\* lines 269-270, 266: a read that reports failure or end of stream
VReadFail ==
    /\ pc = "read" /\ success
    /\ success' = FALSE
    /\ reads' = reads + 1
    /\ pc' = "release"
    /\ UNCHANGED <<lvars, svars, count, vwriter, readlog, detlog, paths, saves, fs>>

\* line 274
VDetect ==
    /\ pc = "detect"
    /\ \E m \in DetectMasks(image) :
          /\ mask' = m
          /\ detlog' = Append(detlog, m)
    /\ pc' = "splash"
    /\ UNCHANGED <<lvars, image, splash, success, count, vwriter, reads, readlog,
                   paths, saves, fs>>

\* line 274 raising
VDetectRaise ==
    /\ pc = "detect"
    /\ pc' = "raised"
    /\ UNCHANGED <<lvars, svars, success, count, vwriter, reads, readlog, detlog,
                   paths, saves, fs>>

\* lines 276-278
VSplash ==
    /\ pc = "splash"
    /\ LET s == color_splash(image, mask)
       IN  IF s = ValueError
           THEN pc' = "raised" /\ splash' = splash
           ELSE pc' = "write" /\ splash' = rev(s)
    /\ UNCHANGED <<lvars, image, mask, success, count, vwriter, reads, readlog,
                   detlog, paths, saves, fs>>

\* a variant of VWrite that puts the frame in front of the stream
VWrite_front ==
    /\ pc = "write"
    /\ vwriter' = [vwriter EXCEPT !.out = <<splash>> \o @,
                                  !.late = @ \/ ~vwriter.open]
    /\ count' = count + 1
    /\ pc' = "read"
    /\ UNCHANGED <<lvars, svars, success, reads, readlog, detlog, paths, saves, fs>>

\* lines 280-281, back to 266
VWrite ==
    /\ pc = "write"
    /\ vwriter' = [vwriter EXCEPT !.out = Append(@, splash),
                                  !.late = @ \/ ~vwriter.open]
    /\ count' = count + 1
    /\ pc' = "read"
    /\ UNCHANGED <<lvars, svars, success, reads, readlog, detlog, paths, saves, fs>>

\* line 280 raising
VWriteRaise ==
    /\ pc = "write"
    /\ pc' = "raised"
    /\ UNCHANGED <<lvars, svars, success, count, vwriter, reads, readlog, detlog,
                   paths, saves, fs>>

\* line 282
VRelease ==
    /\ pc = "release"
    /\ vwriter' = [vwriter EXCEPT !.open = FALSE, !.releases = @ + 1]
    /\ pc' = "done"
    /\ UNCHANGED <<lvars, svars, success, count, reads, readlog, detlog, paths,
                   saves, fs>>

NextVideo ==
    \/ VReadOk \/ VReadFail \/ VDetect \/ VDetectRaise \/ VSplash
    \/ VWrite \/ VWriteRaise \/ VRelease

SpecVideo == InitVideo /\ [][NextVideo]_vars

\* ---- single-image mode, lines 237-249 ----

Path(dir, base) == [dir |-> dir, base |-> base]

\* the parts of images_path.split(","); the empty part comes from "a,,b"
PathSet ==
    {Path("a", "x.jpg"), Path("b", "x.jpg"), Path("a", "y.jpg"), Path("", "")}

\* the images skimage.io.imread finds; no image at the empty path
Disk ==
    (Path("a", "x.jpg") :> FrameOf(<<200, 100, 50>>, <<10, 20, 30>>))
    @@ (Path("b", "x.jpg") :> FrameOf(<<10, 20, 30>>, <<0, 90, 255>>))
    @@ (Path("a", "y.jpg") :> FrameOf(<<0, 90, 255>>, <<200, 100, 50>>))

\* os.path.basename(image_path)
basename(image_path) == image_path.base

\* a variant of file_name that keeps the directory instead of the base name
file_name_dir(image_path) == <<"splash_", image_path.dir, ".png">>

\* f'splash_{os.path.basename(image_path)}.png'
file_name(image_path) == <<"splash_", basename(image_path), ".png">>

\* the state at line 240; images_path is not empty (line 234)
InitImages ==
    /\ image = None /\ mask = None /\ splash = None
    /\ paths \in UNION {[1..n -> PathSet] : n \in 1..MaxPaths}
    /\ pc = "imread" /\ success = FALSE /\ count = 0
    /\ vwriter = NoWriter
    /\ reads = 0 /\ readlog = <<>> /\ detlog = <<>>
    /\ saves = <<>> /\ fs = <<>>
    /\ LoaderIdle

\* line 242
IRead ==
    /\ pc = "imread"
    /\ LET image_path == paths[count + 1]
       IN  IF image_path \in DOMAIN Disk
           THEN image' = Disk[image_path] /\ pc' = "detect"
           ELSE image' = image /\ pc' = "raised"
    /\ UNCHANGED <<lvars, mask, splash, success, count, vwriter, reads, readlog,
                   detlog, paths, saves, fs>>

\* line 244
IDetect ==
    /\ pc = "detect"
    /\ \E m \in DetectMasks(image) :
          /\ mask' = m
          /\ detlog' = Append(detlog, m)
    /\ pc' = "splash"
    /\ UNCHANGED <<lvars, image, splash, success, count, vwriter, reads, readlog,
                   paths, saves, fs>>

\* line 244 raising
IDetectRaise ==
    /\ pc = "detect"
    /\ pc' = "raised"
    /\ UNCHANGED <<lvars, svars, success, count, vwriter, reads, readlog, detlog,
                   paths, saves, fs>>

\* line 246
ISplash ==
    /\ pc = "splash"
    /\ LET s == color_splash(image, mask)
       IN  IF s = ValueError
           THEN pc' = "raised" /\ splash' = splash
           ELSE pc' = "imsave" /\ splash' = s
    /\ UNCHANGED <<lvars, image, mask, success, count, vwriter, reads, readlog,
                   detlog, paths, saves, fs>>

\* lines 248-249, back to 240: the file is created or overwritten
ISave ==
    /\ pc = "imsave"
    /\ LET name == file_name(paths[count + 1])
       IN  /\ fs' = [n \in DOMAIN fs \cup {name} |->
                        IF n = name THEN splash ELSE fs[n]]
           /\ saves' = Append(saves, name)
    /\ count' = count + 1
    /\ pc' = IF count + 1 = Len(paths) THEN "done" ELSE "imread"
    /\ UNCHANGED <<lvars, svars, success, vwriter, reads, readlog, detlog, paths>>

\* line 249 raising
ISaveRaise ==
    /\ pc = "imsave"
    /\ pc' = "raised"
    /\ UNCHANGED <<lvars, svars, success, count, vwriter, reads, readlog, detlog,
                   paths, saves, fs>>

NextImages == IRead \/ IDetect \/ IDetectRaise \/ ISplash \/ ISave \/ ISaveRaise

SpecImages == InitImages /\ [][NextImages]_vars

----------------------------------------------------------------------------
(* BalloonDataset.load_balloon, lines 90-159                               *)

MaxFiles == 2
MaxShapes == 3

\* a variant of labelz with the second label spelled as add_class spells it
labelz_respelled ==
    ("blocked bike lane" :> 1) @@ ("blocked the crosswalk" :> 2)

\* lines 101-104
labelz ==
    ("blocked bike lane" :> 1) @@ ("blcoked the crosswalk" :> 2)

\* polygons as labelme stores them: points <<x, y>>
PolyA == <<<<-1, 0>>, <<2, 0>>, <<0, 2>>>>
PolyB == <<<<1, 1>>, <<3, 1>>, <<1, 3>>>>

Shape(label, shape_type, points) ==
    [label |-> label, shape_type |-> shape_type, points |-> points]

\* the shapes an annotation file is made of
ShapeSet ==
    {Shape("blocked bike lane", "polygon", PolyA),
     Shape("blcoked the crosswalk", "polygon", PolyB),
     Shape("blocked the crosswalk", "polygon", PolyA),
     Shape("blocked bike lane", "rectangle", PolyB)}

\* the annotation files of at most n shapes: the shapes, and
\* <<height, width>> of the image imread finds at image_path, or <<>> when
\* there is none to read
FilesUpTo(n) ==
    [shapes : UNION {[1..k -> ShapeSet] : k \in 0..n}, jpg : {<<>>, <<3, 3>>}]

\* the listings glob can return: at most n files, at most t shapes in all
RECURSIVE Listings(_, _)
Listings(n, t) ==
    IF n = 0 THEN {<<>>}
    ELSE {<<>>} \cup
         UNION {{<<a>> \o rest : rest \in Listings(n - 1, t - Len(a.shapes))}
                : a \in FilesUpTo(t)}

Subsets == {"train", "test"}

\* lines 133-137
keep(shape) ==
    /\ shape.label \in DOMAIN labelz
    /\ shape.shape_type = "polygon"

\* lines 148-151
num_ids_of(labels) ==
    LET known == SelectSeq(labels, LAMBDA x : x \in DOMAIN labelz)
    IN  [i \in 1..Len(known) |-> labelz[known[i]]]

\* p.with_suffix('.jpg') of the k-th file of the listing
suffixed(k) == <<k, ".jpg">>

\* lines 143-159: the record add_image appends
record_of(subset, k, a, kept) ==
    [source   |-> "reported",
     id       |-> suffixed(k),
     path     |-> <<subset, suffixed(k)>>,
     width    |-> a.jpg[2],
     height   |-> a.jpg[1],
     polygons |-> [i \in 1..Len(kept) |-> kept[i].points],
     num_ids  |-> num_ids_of([i \in 1..Len(kept) |-> kept[i].label])]

\* the dataset object after construction
InitLoad ==
    /\ image_info = <<>>
    /\ files = <<>> /\ fi = 0 /\ status = "new" /\ lm = None
    /\ image = None /\ mask = None /\ splash = None
    /\ DriverIdle

\* lines 96-124: the call, the assertion on subset, the listing
CallLoadBalloon ==
    /\ status = "new"
    /\ \E subset \in Subsets, ds \in Listings(MaxFiles, MaxShapes) :
          IF subset \in {"train", "val"}
          THEN files' = [subset |-> subset, list |-> ds]
               /\ fi' = 1 /\ status' = "loading"
          ELSE files' = files /\ fi' = fi /\ status' = "AssertionError"
    /\ UNCHANGED <<svars, dvars, image_info, lm>>

\* a variant of LoadFile that skips an annotation whose image is missing
LoadFile_skip ==
    /\ status = "loading" /\ fi <= Len(files.list)
    /\ LET a    == files.list[fi]
           kept == SelectSeq(a.shapes, keep)
       IN  IF Len(kept) = 0 \/ a.jpg = <<>>
           THEN image_info' = image_info
           ELSE image_info' =
                    Append(image_info, record_of(files.subset, fi, a, kept))
    /\ fi' = fi + 1
    /\ UNCHANGED <<svars, dvars, files, status, lm>>

\* lines 126-159: one pass of the loop over the files
LoadFile ==
    /\ status = "loading" /\ fi <= Len(files.list)
    /\ LET a    == files.list[fi]
           kept == SelectSeq(a.shapes, keep)
       IN  IF Len(kept) = 0
           THEN image_info' = image_info /\ fi' = fi + 1 /\ status' = status
           ELSE IF a.jpg = <<>>
           THEN image_info' = image_info /\ fi' = fi /\ status' = "IOError"
           ELSE /\ image_info' =
                      Append(image_info, record_of(files.subset, fi, a, kept))
                /\ fi' = fi + 1 /\ status' = status
    /\ UNCHANGED <<svars, dvars, files, lm>>

\* the loop is over: load_balloon returns
LoadReturn ==
    /\ status = "loading" /\ fi > Len(files.list)
    /\ status' = "returned"
    /\ UNCHANGED <<svars, dvars, image_info, files, fi, lm>>

NextLoad == CallLoadBalloon \/ LoadFile \/ LoadReturn

SpecLoad == InitLoad /\ [][NextLoad]_vars

----------------------------------------------------------------------------
(* BalloonDataset.load_mask, lines 168-200                                 *)

\* skimage's point_in_polygon of (x, y) in the closed polygon (xp, yp):
\* 0 outside, 1 inside, 2 on a vertex, 3 on an edge
point_in_polygon(xp, yp, x, y) ==
    LET n == Len(xp)
        prev(i) == IF i = 1 THEN n ELSE i - 1
        x0(i) == xp[prev(i)] - x
        y0(i) == yp[prev(i)] - y
        x1(i) == xp[i] - x
        y1(i) == yp[i] - y
        \* the sign of (x1 * y0 - x0 * y1) / (y0 - y1)
        cross(i) == (x1(i) * y0(i) - x0(i) * y1(i)) * (y0(i) - y1(i))
        r_cross == Cardinality({i \in 1..n :
                      ((y1(i) > 0) # (y0(i) > 0)) /\ cross(i) > 0})
        l_cross == Cardinality({i \in 1..n :
                      ((y1(i) < 0) # (y0(i) < 0)) /\ cross(i) < 0})
    IN  IF \E i \in 1..n : x1(i) = 0 /\ y1(i) = 0 THEN 2
        ELSE IF (r_cross % 2) # (l_cross % 2) THEN 3
        ELSE IF r_cross % 2 = 1 THEN 1
        ELSE 0

SeqMin(q) == CHOOSE v \in {q[i] : i \in 1..Len(q)} : \A i \in 1..Len(q) : v <= q[i]
SeqMax(q) == CHOOSE v \in {q[i] : i \in 1..Len(q)} : \A i \in 1..Len(q) : v >= q[i]

\* skimage.draw.polygon(r, c) without a shape: the pixels <<row, column>>
\* of the bounding box, cut at 0 but not at the far side, that are not
\* outside the polygon
polygon(r, c) ==
    {q \in (Max(0, SeqMin(r))..SeqMax(r)) \X (Max(0, SeqMin(c))..SeqMax(c)) :
        point_in_polygon(c, r, q[2], q[1]) # 0}

IndexError == [kind |-> "IndexError"]

\* numpy's index i on an axis of size dim: negative indices count from the
\* end, anything else outside is an error
in_range(i, dim) == -dim <= i /\ i < dim
wrapped(i, dim) == IF i < 0 THEN i + dim ELSE i

\* lines 186-191: the x and the y of the points of a polygon
xs(poly) == [k \in 1..Len(poly) |-> poly[k][1]]
ys(poly) == [k \in 1..Len(poly) |-> poly[k][2]]

\* lines 176-200; rows and columns count from 0
load_mask(info) ==
    IF info.source # "reported" THEN [kind |-> "delegated"]
    ELSE
    LET polygons == info.polygons
        h == info.height
        w == info.width
        fill(index) == polygon(ys(polygons[index]), xs(polygons[index]))
    IN  IF \E index \in 1..Len(polygons) : \E q \in fill(index) :
              ~in_range(q[1], h) \/ ~in_range(q[2], w)
        THEN IndexError
        ELSE [kind |-> "ok",
              h |-> h, w |-> w, n |-> Len(polygons),
              mask |-> [p \in (0..h - 1) \X (0..w - 1) |->
                          [index \in 1..Len(polygons) |->
                              IF \E q \in fill(index) :
                                    <<wrapped(q[1], h), wrapped(q[2], w)>> = p
                              THEN 1 ELSE 0]],
              num_ids |-> info.num_ids]

MaxCoord == 3
Verts == 3

\* the vertices <<x, y>> tried: around and beyond a 3 x 3 image
Points == (-1..MaxCoord) \X (-1..MaxCoord)

\* a dataset after load_balloon returned: one record, of an annotation of
\* one polygon of Verts vertices, or of that polygon and PolyA
InitMask ==
    /\ \E poly \in [1..Verts -> Points], two \in BOOLEAN :
          LET first  == Shape("blocked bike lane", "polygon", poly)
              second == Shape("blcoked the crosswalk", "polygon", PolyA)
              shapes == IF two THEN <<first, second>> ELSE <<first>>
              a      == [shapes |-> shapes, jpg |-> <<3, 3>>]
          IN  image_info = <<record_of("train", 1, a, SelectSeq(shapes, keep))>>
    /\ files = [subset |-> "train", list |-> <<>>]
    /\ fi = 1 /\ status = "returned" /\ lm = None
    /\ image = None /\ mask = None /\ splash = None
    /\ DriverIdle

\* a load_mask call on a record of the dataset
LoadMask ==
    /\ status = "returned"
    /\ lm = None
    /\ \E image_id \in 1..Len(image_info) :
          lm' = [image_id |-> image_id, out |-> load_mask(image_info[image_id])]
    /\ UNCHANGED <<svars, dvars, image_info, files, fi, status>>

NextMask == LoadMask

SpecMask == InitMask /\ [][NextMask]_vars

----------------------------------------------------------------------------
(* Claims about color_splash                                               *)

Called == splash # Pending
SameShape == mask.h = image.h /\ mask.w = image.w
AnyLayer(p) == \E i \in 1..mask.n : mask.m[p][i]
Gray8(p) == rgb2gray(image)[p] \div GrayScale
Bright(p) ==
    LET gray == rgb2gray(image)
        t    == threshold_otsu(gray)
    IN  IF gray[p] * t.den > t.num THEN 1 ELSE 0

\* C3 as stated: with at least one layer, a pixel under some layer keeps its
\* colour and every other pixel shows the scaled grayscale value.
C3_Original ==
    (Called /\ mask.n >= 1 /\ SameShape) =>
        /\ splash.kind = "ok"
        /\ \A p \in Pos(image.h, image.w) :
              splash.px[p] = IF AnyLayer(p) THEN image.px[p]
                             ELSE <<Gray8(p), Gray8(p), Gray8(p)>>

\* C3 as amended: with at least one layer, a pixel under some layer keeps
\* its colour and every other pixel is the bright selector in all three
\* channels: 1 where the scaled grayscale exceeds the Otsu threshold, else 0.
C3_Amended ==
    (Called /\ mask.n >= 1 /\ SameShape) =>
        /\ splash.kind = "ok"
        /\ splash.h = image.h /\ splash.w = image.w
        /\ \A p \in Pos(image.h, image.w) :
              splash.px[p] = IF AnyLayer(p) THEN image.px[p]
                             ELSE <<Bright(p), Bright(p), Bright(p)>>

\* two layers that disagree at a kept pixel, a bright and a dark background
\* pixel
C3_Witness ==
    /\ Called /\ mask.n = 2 /\ SameShape /\ image.h = 3
    /\ \E p \in Pos(image.h, image.w) : mask.m[p][1] /\ ~mask.m[p][2]
    /\ \E p, q \in Pos(image.h, image.w) :
          /\ ~AnyLayer(p) /\ ~AnyLayer(q)
          /\ Bright(p) = 1 /\ Bright(q) = 0
          /\ splash.px[p] = <<1, 1, 1>> /\ splash.px[q] = <<0, 0, 0>>

\* C4: with zero layers the output is the scaled grayscale image cut to
\* 8 bits, three equal channels, at every pixel of the image.
C4_ZeroLayers ==
    (Called /\ mask.n = 0) =>
        /\ splash.kind = "ok"
        /\ splash.h = image.h /\ splash.w = image.w
        /\ \A p \in Pos(image.h, image.w) :
              splash.px[p] = <<Gray8(p), Gray8(p), Gray8(p)>>

\* zero layers on an image of several grey levels, none of which is the
\* bright selector or the original colour
C4_Witness ==
    /\ Called /\ mask.n = 0 /\ image.h = 3
    /\ \E p, q \in Pos(image.h, image.w) : Gray8(p) # Gray8(q)
    /\ \A p \in Pos(image.h, image.w) :
          /\ splash.px[p][1] = Gray8(p)
          /\ Gray8(p) # Bright(p)
          /\ splash.px[p] # image.px[p]

\* C8 as stated: a mask stack whose height or width differs from the
\* image's makes color_splash fail, whatever the number of layers.
C8_Original ==
    (Called /\ ~SameShape) => splash = ValueError

\* C8 as amended: color_splash fails exactly when there is at least one
\* layer and, on some axis, the two sizes differ and neither is 1.
C8_Amended ==
    Called =>
        (splash = ValueError <=>
            /\ mask.n >= 1
            /\ \/ (mask.h # image.h /\ mask.h # 1 /\ image.h # 1)
               \/ (mask.w # image.w /\ mask.w # 1 /\ image.w # 1))

\* a 3-row stack on a 2-row image fails
C8_Witness ==
    /\ splash = ValueError /\ mask.n >= 1 /\ mask.h = 3 /\ image.h = 2

----------------------------------------------------------------------------
(* Claims about the video loop                                             *)

Composite(f, m) == rev(color_splash(rev(f), m))

\* C1: when the loop has stopped at a failed read, that read was the last
\* one (reads = successful reads + 1), the stream holds exactly the
\* composites of the frames read before it, in reading order, and the
\* function goes on to its end.
C1_StopsAtFirstFailedRead ==
    /\ (pc \in {"release", "done"}) =>
          /\ ~success
          /\ reads = Len(readlog) + 1
          /\ count = Len(readlog)
          /\ Len(detlog) = Len(readlog)
          /\ vwriter.out =
                [i \in 1..Len(readlog) |-> Composite(readlog[i], detlog[i])]
    /\ (pc = "release") => ENABLED VRelease
    /\ (~success) => ~ENABLED VReadOk /\ ~ENABLED VReadFail /\ ~ENABLED VWrite

\* three frames written, not all alike, and the fourth read failed
C1_Witness ==
    /\ pc = "done" /\ reads = 4 /\ Len(vwriter.out) = 3
    /\ vwriter.out[1] # vwriter.out[2]
    /\ vwriter.out[2] # vwriter.out[3]

\* C2: the writer is released exactly once on every exit of the loop, also
\* when detecting, compositing or writing a frame raised, and nothing is
\* written after the release.
C2_ReleasedOnEveryExit ==
    (pc \in {"done", "raised"}) => (vwriter.releases = 1 /\ ~vwriter.late)

----------------------------------------------------------------------------
(* Claims about single-image mode                                          *)

Distinct(seq) == \A i, j \in 1..Len(seq) : i # j => seq[i] # seq[j]
Last(name) ==
    CHOOSE i \in 1..Len(saves) :
        saves[i] = name /\ \A j \in 1..Len(saves) : saves[j] = name => j <= i

\* C7 as stated: when every step succeeds, n distinct input paths leave n
\* artifacts.
C7_Original ==
    (pc = "done" /\ Distinct(paths)) => Cardinality(DOMAIN fs) = Len(paths)

\* C7 as amended: there is one imsave per finished input, in input order,
\* each named "splash_" + base name + ".png", and no input is read before
\* the one before it is saved; the artifacts are the files of those names,
\* each holding the composite of the last input of that base name, so n
\* inputs of pairwise distinct base names leave n artifacts.
C7_Amended ==
    /\ Len(saves) = count
    /\ pc = "done" => count = Len(paths)
    /\ saves = [i \in 1..count |-> <<"splash_", paths[i].base, ".png">>]
    /\ DOMAIN fs = {saves[i] : i \in 1..count}
    /\ \A name \in DOMAIN fs :
          fs[name] = color_splash(Disk[paths[Last(name)]], detlog[Last(name)])
    /\ Distinct([i \in 1..count |-> paths[i].base]) =>
          Cardinality(DOMAIN fs) = count

\* two inputs of different base names, then one that shares a base name
C7_Witness ==
    /\ pc = "done" /\ Len(paths) = 3
    /\ paths[1].base # paths[2].base
    /\ paths[3].base = paths[1].base /\ paths[3] # paths[1]
    /\ Cardinality(DOMAIN fs) = 2
    /\ fs[saves[3]] # fs[saves[2]]

----------------------------------------------------------------------------
(* Claims about load_balloon                                               *)

\* a shape the claims call retained: a polygon labelled with a key of the
\* lookup vocabulary
Qualifies(shape) ==
    /\ shape.shape_type = "polygon"
    /\ shape.label \in {"blocked bike lane", "blcoked the crosswalk"}

RECURSIVE QualPoints(_)
QualPoints(shapes) ==
    IF shapes = <<>> THEN <<>>
    ELSE (IF Qualifies(Head(shapes)) THEN <<Head(shapes).points>> ELSE <<>>)
         \o QualPoints(Tail(shapes))

Retains(k) == QualPoints(files.list[k].shapes) # <<>>

\* the files whose records are in the registry, in registry order
RecordedFiles == [j \in 1..Len(image_info) |-> image_info[j].id[1]]

Increasing(seq) == \A i, j \in 1..Len(seq) : i < j => seq[i] < seq[j]

\* C5: after load_balloon returned, a file of the listing has a record if
\* and only if it has a shape of type "polygon" whose label is a key of the
\* lookup vocabulary, it has one record only, and the record's polygons are
\* the points of those shapes in annotation order; a load that raised did
\* so at a file with such a shape and no readable image, never at a dropped
\* shape.
C5_RecordIffRetainedShape ==
    /\ status = "returned" =>
          /\ \A k \in 1..Len(files.list) :
                Retains(k) <=> \E j \in 1..Len(image_info) : RecordedFiles[j] = k
          /\ Increasing(RecordedFiles)
          /\ \A j \in 1..Len(image_info) :
                image_info[j].polygons =
                    QualPoints(files.list[RecordedFiles[j]].shapes)
    /\ status = "IOError" => (Retains(fi) /\ files.list[fi].jpg = <<>>)

\* a file whose three shapes are a kept one, one labelled "blocked the
\* crosswalk" and another kept one, and a file without shapes
C5_Witness ==
    /\ status = "returned" /\ Len(files.list) = 2
    /\ Len(files.list[1].shapes) = 3
    /\ files.list[1].shapes[2].label = "blocked the crosswalk"
    /\ Len(image_info) = 1
    /\ image_info[1].polygons = <<PolyB, PolyA>>
    /\ image_info[1].num_ids = <<2, 1>>

\* C6 as stated: when the image of a file with a retained shape cannot be
\* read, the registry holds no record added by that load call.
C6_Original ==
    status = "IOError" => image_info = <<>>

\* C6 as amended: the load fails at the first file that has a retained shape
\* and no readable image, and cannot return past such a file; no record is
\* added for that file or a later one, and the records of the files with a
\* retained shape before it stay in the registry.
C6_Amended ==
    /\ status = "IOError" =>
          /\ fi \in 1..Len(files.list)
          /\ Retains(fi) /\ files.list[fi].jpg = <<>>
          /\ Increasing(RecordedFiles)
          /\ {RecordedFiles[j] : j \in 1..Len(image_info)} =
                {k \in 1..(fi - 1) : Retains(k)}
          /\ \A k \in 1..(fi - 1) : Retains(k) => files.list[k].jpg # <<>>
    /\ status = "returned" =>
          \A k \in 1..Len(files.list) : Retains(k) => files.list[k].jpg # <<>>

\* the second file fails and the record of the first is in the registry
C6_Witness ==
    /\ status = "IOError" /\ fi = 2
    /\ Len(image_info) = 1 /\ image_info[1].id = suffixed(1)

----------------------------------------------------------------------------
(* Claims about load_mask                                                  *)

Grid(info) == (0..info.height - 1) \X (0..info.width - 1)
Fill(info, index) ==
    polygon(ys(info.polygons[index]), xs(info.polygons[index]))

\* C9: a polygon with coordinates outside the image never makes load_mask
\* fail: layer i is set exactly on the fill pixels of polygon i that lie in
\* the grid, the others are discarded.
C9_OutsidePixelsDiscarded ==
    lm # None =>
        LET info == image_info[lm.image_id]
        IN  /\ lm.out.kind = "ok"
            /\ \A p \in Grid(info) : \A index \in 1..Len(info.polygons) :
                  lm.out.mask[p][index] = 1 <=> p \in Fill(info, index)

\* C10: every record has as many class ids as polygons, at least one, and
\* load_mask returns for it a stack of that many layers, layer i filled
\* from polygon i alone, with the record's class ids.
C10_LayersMatchPolygons ==
    /\ \A j \in 1..Len(image_info) :
          /\ Len(image_info[j].num_ids) = Len(image_info[j].polygons)
          /\ Len(image_info[j].polygons) >= 1
    /\ lm # None =>
          LET info == image_info[lm.image_id]
          IN  /\ lm.out.kind = "ok"
              /\ lm.out.n = Len(info.polygons)
              /\ lm.out.num_ids = info.num_ids
              /\ \A p \in Grid(info) : \A index \in 1..lm.out.n :
                    lm.out.mask[p][index] = 1 => p \in Fill(info, index)

====
